---- MODULE Spec2Model ----
(***************************************************************************)
(* Model of crates/storybook2/src/collab_panel.rs: the CollabPanel view.   *)
(*                                                                         *)
(* An element of the UI tree is a record                                   *)
(*     [kind, styles, children]                                            *)
(* kind     : "div", "img", "svg" or "text"                                *)
(* styles   : the builder calls applied to it, in call order, each a pair  *)
(*            <<method, argument>> of strings ("" when the method takes    *)
(*            no argument)                                                 *)
(* children : the child elements, in the order they were added             *)
(***************************************************************************)
EXTENDS Integers, Sequences, FiniteSets, TLC

VARIABLES
    scroll_state,   \* CollabPanel.scroll_state: the offset the token holds
    theme,          \* the ambient theme that theme(cx) resolves to
    tree,           \* the element tree returned by the latest render
    prevTree,       \* the element tree returned by the render before it
    renders,        \* number of render calls made so far
    lastOp,         \* the latest step taken
    prevOp,         \* the step taken before it
    call,           \* latest call of a fragment builder: arguments and result
    prevCall        \* the fragment-builder call before it

vars == <<scroll_state, theme, tree, prevTree, renders, lastOp, prevOp, call, prevCall>>

----------------------------------------------------------------------------
(* Bounds of the model *)

MaxScroll == 2
MaxRenders == 3

(* Scroll offsets the host framework may store in the token *)
ScrollStates == 0..MaxScroll

----------------------------------------------------------------------------
(* Theme: a nested table elevation.role.state.{foreground,background,border} *)

Slot(n, path) ==
    [foreground |-> n \o ":" \o path \o ".foreground",
     background |-> n \o ":" \o path \o ".background",
     border     |-> n \o ":" \o path \o ".border"]

Role(n, path) ==
    [default |-> Slot(n, path \o ".default"),
     hovered |-> Slot(n, path \o ".hovered"),
     pressed |-> Slot(n, path \o ".pressed")]

Layer(n, path) ==
    [base     |-> Role(n, path \o ".base"),
     variant  |-> Role(n, path \o ".variant"),
     positive |-> Role(n, path \o ".positive")]

Theme(n) ==
    [lowest  |-> Layer(n, "lowest"),
     middle  |-> Layer(n, "middle"),
     highest |-> Layer(n, "highest")]

Themes == {Theme("dark"), Theme("light")}

----------------------------------------------------------------------------
(* The element builder of gpui3, as far as collab_panel.rs uses it *)

NoStyles == <<>>
NoChildren == <<>>

div == [kind |-> "div", styles |-> NoStyles, children |-> NoChildren]
img == [kind |-> "img", styles |-> NoStyles, children |-> NoChildren]
svg == [kind |-> "svg", styles |-> NoStyles, children |-> NoChildren]

(* a string used as an element (IntoAnyElement for &str) *)
text(s) == [kind |-> "text", styles |-> <<<<"text", s>>>>, children |-> NoChildren]

(* e.method(arg) for a style or attribute method *)
with(e, method, arg) == [e EXCEPT !.styles = Append(@, <<method, arg>>)]

(* e.child(c) *)
child(e, c) == [e EXCEPT !.children = Append(@, c)]

(* e.children(cs) *)
children(e, cs) == [e EXCEPT !.children = @ \o cs]

(* The value before any render has returned *)
NoTree == [kind |-> "none", styles |-> NoStyles, children |-> NoChildren]

----------------------------------------------------------------------------
(* CollabPanel *)

(* struct CollabPanel { scroll_state } *)
CollabPanel(s) == [scroll_state |-> s]

(* ScrollState::default() *)
ScrollStateDefault == 0

(* ScrollState::clone: the clone denotes the same offset *)
clone(s) == s

(* the sample contacts of render: <<avatar_uri, label>> *)
AsCii == <<"http://github.com/as-cii.png?s=50", "as-cii">>
NathanSobo == <<"http://github.com/nathansobo.png?s=50", "nathansobo">>
MaxBrunsfeld == <<"http://github.com/maxbrunsfeld.png?s=50", "maxbrunsfeld">>

(* the pinned header's label, less the emoji that follows it in the source
   (string literals here are ASCII) *)
PinnedLabel == "#CRDB"

(* the literal of .take(10) *)
Take == 10

(* list_section_header with the branches of the icon choice exchanged *)
list_section_header_swapped(self, label, expanded, th) ==
    LET labelBox == child(with(with(with(div, "flex", ""), "gap_1", ""), "text_sm", ""),
                          text(label))
        icon == with(with(with(with(svg,
                    "path", IF expanded THEN "icons/radix/caret-up.svg"
                                        ELSE "icons/radix/caret-down.svg"),
                    "w_3p5", ""),
                    "h_3p5", ""),
                    "fill", th.middle.variant.default.foreground)
        iconBox == child(with(with(with(with(div, "flex", ""), "h_full", ""), "gap_1", ""),
                              "items_center", ""),
                         icon)
        row == with(with(with(with(with(div, "h_7", ""), "px_2", ""), "flex", ""),
                         "justify_between", ""), "items_center", "")
    IN  child(child(row, labelBox), iconBox)

(* list_section_header choosing the icon by the label as well as the flag *)
list_section_header_by_label(self, label, expanded, th) ==
    LET labelBox == child(with(with(with(div, "flex", ""), "gap_1", ""), "text_sm", ""),
                          text(label))
        icon == with(with(with(with(svg,
                    "path", IF expanded /\ label # "CHANNELS"
                                THEN "icons/radix/caret-down.svg"
                                ELSE "icons/radix/caret-up.svg"),
                    "w_3p5", ""),
                    "h_3p5", ""),
                    "fill", th.middle.variant.default.foreground)
        iconBox == child(with(with(with(with(div, "flex", ""), "h_full", ""), "gap_1", ""),
                              "items_center", ""),
                         icon)
        row == with(with(with(with(with(div, "h_7", ""), "px_2", ""), "flex", ""),
                         "justify_between", ""), "items_center", "")
    IN  child(child(row, labelBox), iconBox)

(* fn list_section_header(&self, label, expanded, theme) *)
list_section_header(self, label, expanded, th) ==
    LET labelBox == child(with(with(with(div, "flex", ""), "gap_1", ""), "text_sm", ""),
                          text(label))
        icon == with(with(with(with(svg,
                    "path", IF expanded THEN "icons/radix/caret-down.svg"
                                        ELSE "icons/radix/caret-up.svg"),
                    "w_3p5", ""),
                    "h_3p5", ""),
                    "fill", th.middle.variant.default.foreground)
        iconBox == child(with(with(with(with(div, "flex", ""), "h_full", ""), "gap_1", ""),
                              "items_center", ""),
                         icon)
        row == with(with(with(with(with(div, "h_7", ""), "px_2", ""), "flex", ""),
                         "justify_between", ""), "items_center", "")
    IN  child(child(row, labelBox), iconBox)

(* list_item adding the label before the avatar *)
list_item_label_first(self, avatar_uri, label, th) ==
    LET avatar == with(with(with(with(img,
                    "uri", avatar_uri),
                    "size_3p5", ""),
                    "rounded_full", ""),
                    "fill", th.middle.positive.default.foreground)
        inner == with(with(with(with(div, "flex", ""), "items_center", ""), "gap_1", ""),
                      "text_sm", "")
        row == with(with(with(with(div, "h_7", ""), "px_2", ""), "flex", ""),
                    "items_center", "")
    IN  child(row, child(child(inner, text(label)), avatar))

(* fn list_item(&self, avatar_uri, label, theme) *)
list_item(self, avatar_uri, label, th) ==
    LET avatar == with(with(with(with(img,
                    "uri", avatar_uri),
                    "size_3p5", ""),
                    "rounded_full", ""),
                    "fill", th.middle.positive.default.foreground)
        inner == with(with(with(with(div, "flex", ""), "items_center", ""), "gap_1", ""),
                      "text_sm", "")
        row == with(with(with(with(div, "h_7", ""), "px_2", ""), "flex", ""),
                    "items_center", "")
    IN  child(row, child(child(inner, avatar), text(label)))

(* repeat_with(f).take(n) running one group too far *)
RECURSIVE repeat_with_take_inclusive(_, _)
repeat_with_take_inclusive(group, n) ==
    IF n = 0 THEN <<group>> ELSE <<group>> \o repeat_with_take_inclusive(group, n - 1)

(* std::iter::repeat_with(f).take(n): n evaluations of the closure, in order *)
RECURSIVE repeat_with_take(_, _)
repeat_with_take(group, n) ==
    IF n = 0 THEN <<>> ELSE <<group>> \o repeat_with_take(group, n - 1)

(* Iterator::flatten: the groups' elements, group by group *)
RECURSIVE flatten(_)
flatten(groups) ==
    IF groups = <<>> THEN <<>> ELSE Head(groups) \o flatten(Tail(groups))

(* the pinned block without its contact row *)
pinned_block_header_only(self, th) ==
    LET box == with(with(with(with(div,
                    "fill", th.lowest.base.default.background),
                    "pb_1", ""),
                    "border_color", th.lowest.base.default.border),
                    "border_b", "")
    IN  child(box, list_section_header(self, PinnedLabel, TRUE, th))

(* the "pinned" list container of render *)
pinned_block(self, th) ==
    LET box == with(with(with(with(div,
                    "fill", th.lowest.base.default.background),
                    "pb_1", ""),
                    "border_color", th.lowest.base.default.border),
                    "border_b", "")
    IN  child(child(box, list_section_header(self, PinnedLabel, TRUE, th)),
              list_item(self, MaxBrunsfeld[1], MaxBrunsfeld[2], th))

(* the CHANNELS section with its header collapsed *)
channels_section_collapsed(self, th) ==
    LET box == with(with(with(div, "py_2", ""), "flex", ""), "flex_col", "")
    IN  child(box, list_section_header(self, "CHANNELS", FALSE, th))

(* the "CHANNELS" section of render *)
channels_section(self, th) ==
    LET box == with(with(with(div, "py_2", ""), "flex", ""), "flex_col", "")
    IN  child(box, list_section_header(self, "CHANNELS", TRUE, th))

(* the CONTACTS section with the first two contacts in exchanged order *)
contacts_section_exchanged(self, th) ==
    LET box == with(with(with(div, "py_2", ""), "flex", ""), "flex_col", "")
        group == << list_item(self, NathanSobo[1], NathanSobo[2], th),
                    list_item(self, AsCii[1], AsCii[2], th),
                    list_item(self, MaxBrunsfeld[1], MaxBrunsfeld[2], th) >>
    IN  children(child(box, list_section_header(self, "CONTACTS", TRUE, th)),
                 flatten(repeat_with_take(group, Take)))

(* the CONTACTS section with a cap that grows with the renders made so far *)
contacts_section_accumulating(self, th) ==
    LET box == with(with(with(div, "py_2", ""), "flex", ""), "flex_col", "")
        group == << list_item(self, AsCii[1], AsCii[2], th),
                    list_item(self, NathanSobo[1], NathanSobo[2], th),
                    list_item(self, MaxBrunsfeld[1], MaxBrunsfeld[2], th) >>
    IN  children(child(box, list_section_header(self, "CONTACTS", TRUE, th)),
                 flatten(repeat_with_take(group, Take + renders)))

(* the "CONTACTS" section of render *)
contacts_section(self, th) ==
    LET box == with(with(with(div, "py_2", ""), "flex", ""), "flex_col", "")
        group == << list_item(self, AsCii[1], AsCii[2], th),
                    list_item(self, NathanSobo[1], NathanSobo[2], th),
                    list_item(self, MaxBrunsfeld[1], MaxBrunsfeld[2], th) >>
    IN  children(child(box, list_section_header(self, "CONTACTS", TRUE, th)),
                 flatten(repeat_with_take(group, Take)))

(* the scrollable body of render *)
scroll_container(self, th) ==
    LET box == with(with(with(with(div, "w_full", ""), "flex", ""), "flex_col", ""),
                    "overflow_y_scroll", ToString(clone(self.scroll_state)))
    IN  child(child(child(box, pinned_block(self, th)),
                    channels_section(self, th)),
              contacts_section(self, th))

(* the footer bar of render *)
footer(th) ==
    LET bar == with(with(with(with(with(with(div, "h_7", ""), "px_2", ""), "border_t", ""),
                    "border_color", th.middle.variant.default.border),
                    "flex", ""),
                    "items_center", "")
        label == with(with(div, "text_sm", ""),
                      "text_color", th.middle.variant.default.foreground)
    IN  child(bar, child(label, text("Find...")))

(* render adding the footer to the scroll container instead of the root *)
render_footer_in_scroll(self, th) ==
    LET panel == with(with(with(with(with(with(with(with(with(div,
                    "w_64", ""),
                    "h_full", ""),
                    "flex", ""),
                    "flex_col", ""),
                    "font", "Courier"),
                    "text_color", th.middle.base.default.foreground),
                    "border_color", th.middle.base.default.border),
                    "border", ""),
                    "fill", th.middle.base.default.background)
    IN  child(panel, child(scroll_container(self, th), footer(th)))

(* fn render(&mut self, cx): the returned element *)
render(self, th) ==
    LET panel == with(with(with(with(with(with(with(with(with(div,
                    "w_64", ""),
                    "h_full", ""),
                    "flex", ""),
                    "flex_col", ""),
                    "font", "Courier"),
                    "text_color", th.middle.base.default.foreground),
                    "border_color", th.middle.base.default.border),
                    "border", ""),
                    "fill", th.middle.base.default.background)
    IN  child(child(panel, scroll_container(self, th)), footer(th))

----------------------------------------------------------------------------
(* The panel in its host: construction, redraws, scrolling, theme changes *)

NoCall == [fn |-> "none"]

(* CollabPanel::new, before the first render *)
Init ==
    /\ scroll_state = ScrollStateDefault
    /\ theme \in Themes
    /\ tree = NoTree
    /\ prevTree = NoTree
    /\ renders = 0
    /\ lastOp = "new"
    /\ prevOp = "new"
    /\ call = NoCall
    /\ prevCall = NoCall

(* a render that takes the token out of the panel (leaving the default)
   instead of cloning it *)
Render_takes_scroll_state ==
    /\ renders < MaxRenders
    /\ tree' = render(CollabPanel(scroll_state), theme)
    /\ prevTree' = tree
    /\ renders' = renders + 1
    /\ lastOp' = "render"
    /\ prevOp' = lastOp
    /\ scroll_state' = ScrollStateDefault
    /\ UNCHANGED <<theme, call, prevCall>>

(* the framework redraws the view: CollabPanel::render(&mut self, cx) *)
Render ==
    /\ renders < MaxRenders
    /\ tree' = render(CollabPanel(scroll_state), theme)
    /\ prevTree' = tree
    /\ renders' = renders + 1
    /\ lastOp' = "render"
    /\ prevOp' = lastOp
    /\ UNCHANGED <<scroll_state, theme, call, prevCall>>

(* the framework's scroll handling stores a new offset in the token *)
Scroll ==
    /\ \E s \in ScrollStates \ {scroll_state} : scroll_state' = s
    /\ lastOp' = "scroll"
    /\ prevOp' = lastOp
    /\ UNCHANGED <<theme, tree, prevTree, renders, call, prevCall>>

(* the ambient theme is replaced *)
SetTheme ==
    /\ \E t \in Themes \ {theme} : theme' = t
    /\ lastOp' = "theme"
    /\ prevOp' = lastOp
    /\ UNCHANGED <<scroll_state, tree, prevTree, renders, call, prevCall>>

Next == Render \/ Scroll \/ SetTheme

Spec == Init /\ [][Next]_vars

----------------------------------------------------------------------------
(* The fragment builders on their own, over bounded arguments *)

HeaderLabels == {PinnedLabel, "CHANNELS", "CONTACTS"}
ItemLabels == {AsCii[2], MaxBrunsfeld[2]}
AvatarUris == {AsCii[1], MaxBrunsfeld[1]}

(* self.list_section_header(label, expanded, theme) *)
CallListSectionHeader ==
    /\ \E label \in HeaderLabels, expanded \in BOOLEAN, th \in Themes :
         call' = [fn |-> "list_section_header",
                  self |-> CollabPanel(scroll_state),
                  label |-> label, expanded |-> expanded, theme |-> th,
                  ret |-> list_section_header(CollabPanel(scroll_state), label, expanded, th)]
    /\ prevCall' = call
    /\ lastOp' = "list_section_header"
    /\ prevOp' = lastOp
    /\ UNCHANGED <<scroll_state, theme, tree, prevTree, renders>>

(* self.list_item(avatar_uri, label, theme) *)
CallListItem ==
    /\ \E avatar_uri \in AvatarUris, label \in ItemLabels, th \in Themes :
         call' = [fn |-> "list_item",
                  self |-> CollabPanel(scroll_state),
                  avatar_uri |-> avatar_uri, label |-> label, theme |-> th,
                  ret |-> list_item(CollabPanel(scroll_state), avatar_uri, label, th)]
    /\ prevCall' = call
    /\ lastOp' = "list_item"
    /\ prevOp' = lastOp
    /\ UNCHANGED <<scroll_state, theme, tree, prevTree, renders>>

FnNext == CallListSectionHeader \/ CallListItem \/ Scroll

FnSpec == Init /\ [][FnNext]_vars

----------------------------------------------------------------------------
(* Reading an element tree *)

(* the element and all its descendants, in document order *)
RECURSIVE Nodes(_)
Nodes(e) ==
    LET RECURSIVE Each(_)
        Each(cs) == IF cs = <<>> THEN <<>> ELSE Nodes(Head(cs)) \o Each(Tail(cs))
    IN  <<e>> \o Each(e.children)

(* how many elements of a sequence satisfy a test *)
Count(seq, Test(_)) == Cardinality({i \in DOMAIN seq : Test(seq[i])})

HasStyle(e, method) == \E i \in DOMAIN e.styles : e.styles[i][1] = method

(* the argument of the last call of the method on e *)
StyleArg(e, method) ==
    LET is == {i \in DOMAIN e.styles : e.styles[i][1] = method}
    IN  e.styles[CHOOSE i \in is : \A j \in is : j <= i][2]

IsText(e, s) == e.kind = "text" /\ e.styles = <<<<"text", s>>>>

IsScrollContainer(e) == e.kind = "div" /\ HasStyle(e, "overflow_y_scroll")

IsFooter(e) ==
    /\ e.kind = "div"
    /\ Len(e.children) = 1
    /\ Len(e.children[1].children) = 1
    /\ IsText(e.children[1].children[1], "Find...")

IsIcon(e) == e.kind = "svg"

IsSectionHeader(e) ==
    /\ e.kind = "div"
    /\ Len(e.children) = 2
    /\ Len(e.children[1].children) = 1
    /\ e.children[1].children[1].kind = "text"
    /\ Len(e.children[2].children) = 1
    /\ IsIcon(e.children[2].children[1])

HeaderLabel(h) == StyleArg(h.children[1].children[1], "text")

HeaderIcon(h) == h.children[2].children[1]

IconPath(h) == StyleArg(HeaderIcon(h), "path")

IsListItem(e) ==
    /\ e.kind = "div"
    /\ Len(e.children) = 1
    /\ Len(e.children[1].children) = 2
    /\ e.children[1].children[1].kind = "img"
    /\ e.children[1].children[2].kind = "text"

ItemAvatar(r) == r.children[1].children[1]

ItemUri(r) == StyleArg(ItemAvatar(r), "uri")

ItemLabel(r) == StyleArg(r.children[1].children[2], "text")

(* a block of the scroll container headed by a section header with this label *)
IsSection(b, label) ==
    /\ b.kind = "div"
    /\ Len(b.children) >= 1
    /\ IsSectionHeader(b.children[1])
    /\ HeaderLabel(b.children[1]) = label

(* StyleHelpers: the width, height and corner radius a style method sets *)
WidthSet(method) ==
    CASE method = "size_3p5" -> "3p5"
      [] method = "w_3p5"    -> "3p5"
      [] method = "w_64"     -> "64"
      [] method = "w_full"   -> "full"
      [] OTHER               -> ""

HeightSet(method) ==
    CASE method = "size_3p5" -> "3p5"
      [] method = "h_3p5"    -> "3p5"
      [] method = "h_7"      -> "7"
      [] method = "h_full"   -> "full"
      [] OTHER               -> ""

RadiusSet(method) ==
    CASE method = "rounded_full" -> "full"
      [] OTHER                   -> ""

(* the value the element ends with: the last method that sets one wins *)
Measure(e, Set(_)) ==
    LET is == {i \in DOMAIN e.styles : Set(e.styles[i][1]) # ""}
    IN  IF is = {} THEN "" ELSE Set(e.styles[CHOOSE i \in is : \A j \in is : j <= i][1])

Width(e) == Measure(e, WidthSet)
Height(e) == Measure(e, HeightSet)
CornerRadius(e) == Measure(e, RadiusSet)

(* the parts of the latest rendered tree *)
ScrollPart == tree.children[1]
FooterPart == tree.children[2]
PinnedPart == ScrollPart.children[1]
ChannelsPart == ScrollPart.children[2]
ContactsPart == ScrollPart.children[3]
Rendered == renders > 0

----------------------------------------------------------------------------
(* Properties of render, checked under Spec *)

CaretDown == "icons/radix/caret-down.svg"
CaretUp == "icons/radix/caret-up.svg"

(* C1: every tree render returns is one root div with exactly two children,
   the scroll container and then the footer; the scroll container holds
   exactly three blocks, headed in order by the pinned label, "CHANNELS" and
   "CONTACTS"; the tree holds one scroll container and one footer in all, so
   the footer is the scroll container's sibling and not inside it. *)
C1_RenderShape ==
    Rendered =>
        LET ns == Nodes(tree) IN
        /\ tree.kind = "div"
        /\ Len(tree.children) = 2
        /\ IsScrollContainer(ScrollPart)
        /\ IsFooter(FooterPart)
        /\ Count(ns, IsScrollContainer) = 1
        /\ Count(ns, IsFooter) = 1
        /\ Count(Nodes(ScrollPart), IsFooter) = 0
        /\ Len(ScrollPart.children) = 3
        /\ IsSection(PinnedPart, PinnedLabel)
        /\ IsSection(ChannelsPart, "CHANNELS")
        /\ IsSection(ContactsPart, "CONTACTS")

C1_Witness ==
    /\ Rendered
    /\ lastOp = "render"
    /\ scroll_state = MaxScroll
    /\ theme = Theme("light")
    /\ IsFooter(tree.children[2])
    /\ IsSection(tree.children[1].children[3], "CONTACTS")

(* C2: the CONTACTS section of every rendered tree holds exactly 30 item
   rows, whichever render call produced it and whatever the scroll offset. *)
C2_ContactsRows ==
    Rendered => Count(ContactsPart.children, IsListItem) = 30

C2_Witness ==
    /\ renders >= 2
    /\ lastOp = "render"
    /\ scroll_state # ScrollStateDefault
    /\ Count(ContactsPart.children, IsListItem) = 30

C6_RenderKeepsScrollState ==
    [][(scroll_state' # scroll_state) =>
            (lastOp' = "scroll" /\ renders' = renders /\ tree' = tree)]_vars

C6_Witness ==
    /\ Rendered
    /\ lastOp = "render"
    /\ prevOp = "scroll"
    /\ scroll_state # ScrollStateDefault
    /\ StyleArg(ScrollPart, "overflow_y_scroll") = ToString(scroll_state)

(* C8: every section header of a rendered tree (there are three) shows the
   caret-down icon, and no icon of the tree is the caret-up icon. *)
C8_AllHeadersExpanded ==
    Rendered =>
        LET ns == Nodes(tree) IN
        /\ Count(ns, IsSectionHeader) = 3
        /\ \A i \in DOMAIN ns : IsSectionHeader(ns[i]) => IconPath(ns[i]) = CaretDown
        /\ \A i \in DOMAIN ns : IsIcon(ns[i]) => StyleArg(ns[i], "path") # CaretUp

C8_Witness ==
    /\ Rendered
    /\ renders = MaxRenders
    /\ IconPath(PinnedPart.children[1]) = CaretDown
    /\ IconPath(ChannelsPart.children[1]) = CaretDown
    /\ IconPath(ContactsPart.children[1]) = CaretDown

(* C9: the pinned block is its header followed by one item row labelled
   "maxbrunsfeld"; the CHANNELS section is its header alone; the whole tree
   holds exactly 3 section headers and 31 item rows. *)
C9_PinnedAndChannels ==
    Rendered =>
        LET ns == Nodes(tree) IN
        /\ Len(PinnedPart.children) = 2
        /\ IsSectionHeader(PinnedPart.children[1])
        /\ IsListItem(PinnedPart.children[2])
        /\ ItemLabel(PinnedPart.children[2]) = "maxbrunsfeld"
        /\ Len(ChannelsPart.children) = 1
        /\ IsSectionHeader(ChannelsPart.children[1])
        /\ Count(ChannelsPart.children, IsListItem) = 0
        /\ Count(ns, IsSectionHeader) = 3
        /\ Count(ns, IsListItem) = 31

C9_Witness ==
    /\ Rendered
    /\ prevOp = "theme"
    /\ lastOp = "render"
    /\ Len(PinnedPart.children) = 2
    /\ Len(ChannelsPart.children) = 1
    /\ Count(Nodes(tree), IsListItem) = 31

(* C10: in the CONTACTS section the header comes first and item row k, for k
   in 0..29, is contact k mod 3 of (as-cii, nathansobo, maxbrunsfeld), with
   that contact's avatar URI. *)
C10_ContactsCycle ==
    Rendered =>
        LET cs == ContactsPart.children
            cycle == <<AsCii, NathanSobo, MaxBrunsfeld>>
        IN  /\ Len(cs) = 31
            /\ IsSectionHeader(cs[1])
            /\ \A k \in 0..29 :
                 /\ IsListItem(cs[k + 2])
                 /\ ItemUri(cs[k + 2]) = cycle[(k % 3) + 1][1]
                 /\ ItemLabel(cs[k + 2]) = cycle[(k % 3) + 1][2]

C10_Witness ==
    /\ Rendered
    /\ lastOp = "render"
    /\ ItemLabel(ContactsPart.children[2]) = "as-cii"
    /\ ItemLabel(ContactsPart.children[30]) = "nathansobo"
    /\ ItemUri(ContactsPart.children[31]) = "http://github.com/maxbrunsfeld.png?s=50"

----------------------------------------------------------------------------
(* Properties of the fragment builders, checked under FnSpec *)

(* C3: list_section_header with expanded = TRUE selects the caret-down path
   and with expanded = FALSE the caret-up path; the header holds exactly one
   icon, in the row's second child, after the label in its first. *)
C3_HeaderIcon ==
    call.fn = "list_section_header" =>
        LET h == call.ret IN
        /\ IsSectionHeader(h)
        /\ Count(Nodes(h), IsIcon) = 1
        /\ HeaderLabel(h) = call.label
        /\ Count(Nodes(h.children[1]), IsIcon) = 0
        /\ IconPath(h) = IF call.expanded THEN CaretDown ELSE CaretUp

C3_Witness ==
    /\ call.fn = "list_section_header"
    /\ prevCall.fn = "list_section_header"
    /\ ~call.expanded
    /\ prevCall.expanded
    /\ IconPath(call.ret) = CaretUp
    /\ IconPath(prevCall.ret) = CaretDown

(* C4: list_item returns a row whose inner container has exactly two
   children, the avatar image and then the label; the image carries the URI
   passed in, is as wide as it is high and fully rounded, and its size and
   rounding are the same for every URI. *)
C4_ItemShape ==
    call.fn = "list_item" =>
        LET r == call.ret
            inner == r.children[1]
        IN  /\ Len(r.children) = 1
            /\ Len(inner.children) = 2
            /\ inner.children[1].kind = "img"
            /\ IsText(inner.children[2], call.label)
            /\ ItemUri(r) = call.avatar_uri
            /\ Width(ItemAvatar(r)) # ""
            /\ Width(ItemAvatar(r)) = Height(ItemAvatar(r))
            /\ CornerRadius(ItemAvatar(r)) = "full"
            /\ prevCall.fn = "list_item" =>
                 /\ Width(ItemAvatar(prevCall.ret)) = Width(ItemAvatar(r))
                 /\ Height(ItemAvatar(prevCall.ret)) = Height(ItemAvatar(r))
                 /\ CornerRadius(ItemAvatar(prevCall.ret)) = CornerRadius(ItemAvatar(r))

C4_Witness ==
    /\ call.fn = "list_item"
    /\ prevCall.fn = "list_item"
    /\ call.avatar_uri # prevCall.avatar_uri
    /\ ItemUri(call.ret) = call.avatar_uri
    /\ Width(ItemAvatar(call.ret)) = "3p5"
    /\ Height(ItemAvatar(prevCall.ret)) = "3p5"

(* C7: two calls of list_section_header select the same icon path exactly
   when they agree on expanded, whatever their labels, themes and panel
   states. *)
C7_IconDependsOnExpandedOnly ==
    (call.fn = "list_section_header" /\ prevCall.fn = "list_section_header") =>
        ((call.expanded = prevCall.expanded) <=> (IconPath(call.ret) = IconPath(prevCall.ret)))

C7_Witness ==
    /\ call.fn = "list_section_header"
    /\ prevCall.fn = "list_section_header"
    /\ call.expanded = prevCall.expanded
    /\ call.label # prevCall.label
    /\ call.theme # prevCall.theme
    /\ call.self # prevCall.self
    /\ IconPath(call.ret) = IconPath(prevCall.ret)

====
